---- MODULE Spec2Model ----
(***************************************************************************)
(* A model of hatch's cli Application (src/hatch/cli/application.py):      *)
(* prepare_environment, run_shell_commands, attach_builder, read_builder,  *)
(* ensure_plugin_dependencies and abort.                                   *)
(*                                                                         *)
(* Every observable effect (a call on the environment, a line displayed,   *)
(* a scoped resource entered or left, the exit function being called) is   *)
(* appended to `trace`, in program order.  Texts are sequences of string   *)
(* pieces; a shell command is a sequence of one-character strings, so that *)
(* startswith('- ') and command[2:] are computed and not assumed.          *)
(*                                                                         *)
(* The exit function handed to Application.__init__ does not return: like  *)
(* sys.exit or click's ctx.exit it raises, so an abort unwinds the active  *)
(* `with` blocks (innermost first) and ends the operation.                 *)
(***************************************************************************)
EXTENDS Integers, Sequences, FiniteSets, TLC

VARIABLES
    pc,                   \* control point of the running operation
    trace,                \* observable events so far, in program order
    ctx,                  \* stack of the `with` blocks currently entered
    exit_code,            \* argument the exit function was called with, or None
    verbose,              \* Application.verbose
    env,                  \* the Environment's attributes read by the application
    commands,             \* run_shell_commands: parameter `commands`
    source,               \* run_shell_commands: parameter `source`
    force_continue,       \* run_shell_commands: parameter `force_continue`
    show_code_on_error,   \* run_shell_commands: parameter `show_code_on_error`
    ret,                  \* who called run_shell_commands
    resolved_commands,    \* run_shell_commands: local `resolved_commands`
    i,                    \* run_shell_commands: loop index (1-based)
    first_error_code,     \* run_shell_commands: local `first_error_code`
    continue_on_error,    \* run_shell_commands: local `continue_on_error`
    dependencies_in_sync, \* prepare_environment: local `dependencies_in_sync`
    stream,               \* attach_builder: the lines the child process emits
    pos,                  \* attach_builder: number of lines read so far
    returncode,           \* attach_builder: process.returncode once waited on
    output,               \* read_builder: the local `lines`, joined
    abort_text,           \* abort: parameter `text` of the call made, if any
    dependencies,         \* ensure_plugin_dependencies: parameter `dependencies`
    wait_message,         \* ensure_plugin_dependencies: parameter `wait_message`
    verbosity             \* Application.verbosity

vars == <<pc, trace, ctx, exit_code, verbose, env, commands, source,
          force_continue, show_code_on_error, ret, resolved_commands, i,
          first_error_code, continue_on_error, dependencies_in_sync,
          stream, pos, returncode, output, abort_text, dependencies,
          wait_message, verbosity>>

appVars == <<verbose, env, dependencies, wait_message, verbosity>>
abortVars == <<exit_code, abort_text>>
rscParams == <<commands, source, force_continue, show_code_on_error, ret>>
rscLocals == <<resolved_commands, i, first_error_code, continue_on_error>>
procVars == <<stream, pos, returncode, output>>

----------------------------------------------------------------------------
(* Bounds of the model.                                                    *)

MaxCommands == 2        \* longest resolved command list of a direct call
MaxHookCommands == 1    \* longest resolved list of a pre/post-install hook
MaxMarks == 2           \* most "- " markers in front of one command
MaxExitCode == 2        \* largest exit code a shell command returns
MaxLines == 2           \* most lines the child process emits
MaxDependencies == 2    \* most plugin dependencies to ensure

----------------------------------------------------------------------------
(* Values.                                                                 *)

None == -1

AbortDefaultCode == 1

Truthy(x) == x # None /\ x # 0

BoundedSeq(S, n) == UNION {[1..k -> S] : k \in 0..n}

Ev(e, text, code) == [e |-> e, text |-> text, code |-> code]

Digit == <<"0", "1", "2", "3", "4", "5", "6", "7", "8", "9">>

RECURSIVE Str(_)
Str(n) == IF n < 10 THEN <<Digit[n + 1]>> ELSE Str(n \div 10) \o <<Digit[(n % 10) + 1]>>

RECURSIVE Marks(_)
Marks(k) == IF k = 0 THEN <<>> ELSE <<"-", " ">> \o Marks(k - 1)

CommandPool == {Marks(k) \o <<"x">> : k \in 0..MaxMarks} \cup {<<"-", "x">>}

CommandLists(n) == BoundedSeq(CommandPool, n)

ExitCodes == 0..MaxExitCode

InputLists == {<<"build">>, <<"build", "test">>}

ResolveErrors == {<<>>, <<"Unknown script">>}

EnvFailure == <<"environment failure">>

----------------------------------------------------------------------------
(* Scoped resources (`with` blocks).                                       *)

CommandContext == <<"command_context">>

Status(message) == <<"status">> \o message

EnterEv(scope) == Ev("enter", scope, 0)

LeaveEv(scope) == Ev("leave", scope, 0)

UnwindNothing(stack) == <<>>

\* Leaving the `with` blocks, innermost first
Unwind(stack) == [k \in 1..Len(stack) |-> LeaveEv(stack[Len(stack) + 1 - k])]

Front(s) == SubSeq(s, 1, Len(s) - 1)

----------------------------------------------------------------------------
(* Application.abort                                                       *)

AbortedResumes == "ab_loop"

\* The exit function does not return to its caller.
Aborted == "aborted"

AbortEventsExitFirst(text, code) ==
    <<Ev("exit", <<>>, code)>>
        \o (IF text # <<>> THEN <<Ev("display_error", text, 0)>> ELSE <<>>)

AbortEventsSilent(text, code) == <<Ev("exit", <<>>, code)>>

AbortEvents(text, code) ==
    (IF text # <<>> THEN <<Ev("display_error", text, 0)>> ELSE <<>>)
        \o <<Ev("exit", <<>>, code)>>

\* The exit function raises: the `with` blocks of `stack` are left, innermost
\* first, and the operation is over.
AbortWithin(stack, before, text, code) ==
    /\ trace' = trace \o before \o AbortEvents(text, code) \o Unwind(stack)
    /\ ctx' = <<>>
    /\ exit_code' = code
    /\ abort_text' = text
    /\ pc' = Aborted

DoAbort(before, text, code) == AbortWithin(ctx, before, text, code)

----------------------------------------------------------------------------
(* Application.run_shell_commands                                          *)

ShouldDisplayCommandOffByOne(v, resolved) == v \/ Len(resolved) >= 1

ShouldDisplayCommand(v, resolved) == v \/ Len(resolved) > 1

DisplayText(src, n, command) == <<src, " [">> \o Str(n) \o <<"] | ">> \o command

StartsWithMarker(command) ==
    /\ Len(command) >= 2
    /\ command[1] = "-"
    /\ command[2] = " "

StripMarkerOffByOne(command) == SubSeq(command, 2, Len(command))

StripMarker(command) == SubSeq(command, 3, Len(command))

ContinueOnErrorMarkerOnly(force, command) == StartsWithMarker(command)

ContinueOnError(force, command) == IF StartsWithMarker(command) THEN TRUE ELSE force

ExecutedCommand(command) ==
    IF StartsWithMarker(command) THEN StripMarker(command) ELSE command

NextFirstErrorOverwrites(first, rc) == rc

NextFirstError(first, rc) == IF Truthy(first) THEN first ELSE rc

FailText(rc) == <<"Failed with exit code: ">> \o Str(rc)

AbortTextAlwaysShown(show, rc) == FailText(rc)

AbortText(show, rc) == IF show THEN FailText(rc) ELSE <<>>

ResolveBound(caller) == IF caller = "top" THEN MaxCommands ELSE MaxHookCommands

ReturnTo(caller) ==
    CASE caller = "pre-install" -> "pe_after_pre"
      [] caller = "post-install" -> "pe_after_post"
      [] OTHER -> "done"

ImmediateAbortCodeFirstError(first, rc) == first

\* `code=process.returncode`, whatever first_error_code holds by then
ImmediateAbortCode(first, rc) == rc

RscEnter ==
    /\ pc = "rsc_enter"
    /\ ctx' = Append(ctx, CommandContext)
    /\ trace' = trace \o <<Ev("run_shell_commands", <<source>> \o commands, 0),
                           EnterEv(CommandContext)>>
    /\ pc' = "rsc_resolve"
    /\ UNCHANGED <<abortVars, appVars, rscParams, rscLocals,
                   dependencies_in_sync, procVars>>

\* environment.resolve_commands is the environment's own code: it either
\* raises (any message, the empty one included) or expands the commands into
\* some list of literal command lines.
RscResolveFails ==
    /\ pc = "rsc_resolve"
    /\ \E msg \in ResolveErrors :
          DoAbort(<<Ev("resolve_commands", msg, 1)>>, msg, AbortDefaultCode)
    /\ UNCHANGED <<appVars, rscParams, rscLocals, dependencies_in_sync,
                   procVars>>

RscResolve ==
    /\ pc = "rsc_resolve"
    /\ \E r \in CommandLists(ResolveBound(ret)) : resolved_commands' = r
    /\ first_error_code' = None
    /\ i' = 1
    /\ trace' = Append(trace, Ev("resolve_commands", <<>>, 0))
    /\ pc' = "rsc_loop"
    /\ UNCHANGED <<ctx, abortVars, appVars, rscParams, continue_on_error,
                   dependencies_in_sync, procVars>>

RscIterate ==
    /\ pc = "rsc_loop"
    /\ i <= Len(resolved_commands)
    /\ LET command == resolved_commands[i]
           shown == IF ShouldDisplayCommand(verbose, resolved_commands)
                    THEN <<Ev("display", DisplayText(source, i, command), 0)>>
                    ELSE <<>>
           coe == ContinueOnError(force_continue, command)
       IN  \E rc \in ExitCodes :
             LET evs == shown \o <<Ev("run_shell_command", ExecutedCommand(command), rc)>>
             IN  /\ continue_on_error' = coe
                 /\ first_error_code' =
                        IF rc # 0 THEN NextFirstError(first_error_code, rc)
                                  ELSE first_error_code
                 /\ IF rc # 0 /\ ~coe
                    THEN /\ DoAbort(evs, AbortText(show_code_on_error, rc),
                                    ImmediateAbortCode(first_error_code', rc))
                         /\ UNCHANGED i
                    ELSE /\ trace' = trace \o evs
                         /\ i' = i + 1
                         /\ UNCHANGED <<pc, ctx, abortVars>>
    /\ UNCHANGED <<appVars, rscParams, resolved_commands,
                   dependencies_in_sync, procVars>>

EndOfLoopAbortsOnAnyError(first, force) == Truthy(first)

\* `if first_error_code and force_continue:`
EndOfLoopAborts(first, force) == Truthy(first) /\ force

RscAfterLoop ==
    /\ pc = "rsc_loop"
    /\ i > Len(resolved_commands)
    /\ IF EndOfLoopAborts(first_error_code, force_continue)
       THEN DoAbort(<<>>, <<>>, first_error_code)
       ELSE /\ trace' = Append(trace, LeaveEv(CommandContext))
            /\ ctx' = Front(ctx)
            /\ pc' = ReturnTo(ret)
            /\ UNCHANGED abortVars
    /\ UNCHANGED <<appVars, rscParams, rscLocals, dependencies_in_sync,
                   procVars>>

----------------------------------------------------------------------------
(* A direct call of run_shell_commands.                                    *)

NoEnv == [name |-> "default", exists |-> TRUE, skip_install |-> TRUE,
          dev_mode |-> FALSE, pre_install_commands |-> <<>>,
          post_install_commands |-> <<>>]

InitShell ==
    /\ pc = "rsc_enter"
    /\ trace = <<>>
    /\ ctx = <<>>
    /\ exit_code = None
    /\ verbose \in BOOLEAN
    /\ env = NoEnv
    /\ commands \in InputLists
    /\ source = "cmd"
    /\ force_continue \in BOOLEAN
    /\ show_code_on_error \in BOOLEAN
    /\ ret = "top"
    /\ resolved_commands = <<>>
    /\ i = 0
    /\ first_error_code = None
    /\ continue_on_error = FALSE
    /\ dependencies_in_sync = FALSE
    /\ stream = <<>>
    /\ pos = 0
    /\ returncode = None
    /\ output = <<>>
    /\ abort_text = <<>>
    /\ dependencies = <<>>
    /\ wait_message = ""
    /\ verbosity = 0

NextShell == RscEnter \/ RscResolveFails \/ RscResolve \/ RscIterate \/ RscAfterLoop

SpecShell == InitShell /\ [][NextShell]_vars

----------------------------------------------------------------------------
(* Application.prepare_environment                                         *)

HookLists == {<<>>, <<"build">>}

Environments ==
    [name : {"default"}, exists : BOOLEAN, skip_install : BOOLEAN,
     dev_mode : BOOLEAN, pre_install_commands : HookLists,
     post_install_commands : HookLists]

AfterExistsAlwaysCreates(e) == "pe_create"

AfterExists(e) == IF e.exists THEN "pe_check" ELSE "pe_create"

AfterCreateIgnoresSkip(e) ==
    IF e.pre_install_commands # <<>> THEN "pe_pre" ELSE "pe_install"

AfterCreate(e) ==
    IF e.skip_install THEN "pe_check"
    ELSE IF e.pre_install_commands # <<>> THEN "pe_pre" ELSE "pe_install"

InstallOp(e) == IF e.dev_mode THEN "install_project_dev_mode" ELSE "install_project"

InstallStatus(e) ==
    IF e.dev_mode THEN <<"Installing project in development mode">>
                  ELSE <<"Installing project">>

AfterInstall(e) == IF e.post_install_commands # <<>> THEN "pe_post" ELSE "pe_check"

AfterCheckAlwaysSyncs(in_sync) == "pe_sync"

AfterCheck(in_sync) == IF in_sync THEN "done" ELSE "pe_sync"

\* `with self.status(message): environment.op()`.  The environment reports a
\* failure through the application it was given (line 68), that is by abort.
EnvStep(message, op, next) ==
    \E ok \in BOOLEAN :
        IF ok
        THEN /\ trace' = trace \o <<EnterEv(Status(message)), Ev(op, <<>>, 0),
                                    LeaveEv(Status(message))>>
             /\ pc' = next
             /\ UNCHANGED <<ctx, abortVars>>
        ELSE AbortWithin(Append(ctx, Status(message)),
                         <<EnterEv(Status(message)), Ev(op, EnvFailure, 0)>>,
                         EnvFailure, AbortDefaultCode)

\* `with self.status(message): self.run_shell_commands(environment, cmds, source=tag)`
HookCall(message, cmds, tag) ==
    /\ ctx' = Append(ctx, Status(message))
    /\ trace' = Append(trace, EnterEv(Status(message)))
    /\ commands' = cmds
    /\ source' = tag
    /\ force_continue' = FALSE
    /\ show_code_on_error' = TRUE
    /\ ret' = tag
    /\ pc' = "rsc_enter"
    /\ UNCHANGED <<abortVars, appVars, rscLocals, dependencies_in_sync,
                   procVars>>

HookReturn(message, next) ==
    /\ ctx' = Front(ctx)
    /\ trace' = Append(trace, LeaveEv(Status(message)))
    /\ pc' = next
    /\ UNCHANGED <<abortVars, appVars, rscParams, rscLocals,
                   dependencies_in_sync, procVars>>

PeExists ==
    /\ pc = "pe_start"
    /\ trace' = Append(trace, Ev("exists", <<>>, IF env.exists THEN 1 ELSE 0))
    /\ pc' = AfterExists(env)
    /\ UNCHANGED <<ctx, abortVars, appVars, rscParams, rscLocals,
                   dependencies_in_sync, procVars>>

PeCreate ==
    /\ pc = "pe_create"
    /\ EnvStep(<<"Creating environment: ", env.name>>, "create", AfterCreate(env))
    /\ UNCHANGED <<appVars, rscParams, rscLocals, dependencies_in_sync,
                   procVars>>

PePreInstall ==
    /\ pc = "pe_pre"
    /\ HookCall(<<"Running pre-installation commands">>,
                env.pre_install_commands, "pre-install")

PeAfterPreInstall ==
    /\ pc = "pe_after_pre"
    /\ HookReturn(<<"Running pre-installation commands">>, "pe_install")

PeInstall ==
    /\ pc = "pe_install"
    /\ EnvStep(InstallStatus(env), InstallOp(env), AfterInstall(env))
    /\ UNCHANGED <<appVars, rscParams, rscLocals, dependencies_in_sync,
                   procVars>>

PePostInstall ==
    /\ pc = "pe_post"
    /\ HookCall(<<"Running post-installation commands">>,
                env.post_install_commands, "post-install")

PeAfterPostInstall ==
    /\ pc = "pe_after_post"
    /\ HookReturn(<<"Running post-installation commands">>, "pe_check")

PeCheck ==
    /\ pc = "pe_check"
    /\ LET st == Status(<<"Checking dependencies">>)
       IN  \E outcome \in {"in sync", "out of sync", "fails"} :
             IF outcome = "fails"
             THEN /\ AbortWithin(Append(ctx, st),
                                 <<EnterEv(st), Ev("dependencies_in_sync", EnvFailure, 0)>>,
                                 EnvFailure, AbortDefaultCode)
                  /\ UNCHANGED dependencies_in_sync
             ELSE /\ dependencies_in_sync' = (outcome = "in sync")
                  /\ trace' = trace \o
                        <<EnterEv(st),
                          Ev("dependencies_in_sync", <<>>,
                             IF outcome = "in sync" THEN 1 ELSE 0),
                          LeaveEv(st)>>
                  /\ pc' = AfterCheck(outcome = "in sync")
                  /\ UNCHANGED <<ctx, abortVars>>
    /\ UNCHANGED <<appVars, rscParams, rscLocals, procVars>>

PeSync ==
    /\ pc = "pe_sync"
    /\ EnvStep(<<"Syncing dependencies">>, "sync_dependencies", "done")
    /\ UNCHANGED <<appVars, rscParams, rscLocals, dependencies_in_sync,
                   procVars>>

InitPrepare ==
    /\ pc = "pe_start"
    /\ trace = <<>>
    /\ ctx = <<>>
    /\ exit_code = None
    /\ verbose = FALSE
    /\ env \in Environments
    /\ commands = <<>>
    /\ source = "cmd"
    /\ force_continue = FALSE
    /\ show_code_on_error = TRUE
    /\ ret = "top"
    /\ resolved_commands = <<>>
    /\ i = 0
    /\ first_error_code = None
    /\ continue_on_error = FALSE
    /\ dependencies_in_sync = FALSE
    /\ stream = <<>>
    /\ pos = 0
    /\ returncode = None
    /\ output = <<>>
    /\ abort_text = <<>>
    /\ dependencies = <<>>
    /\ wait_message = ""
    /\ verbosity = 0

NextPrepare ==
    \/ PeExists \/ PeCreate \/ PePreInstall \/ PeAfterPreInstall \/ PeInstall
    \/ PePostInstall \/ PeAfterPostInstall \/ PeCheck \/ PeSync
    \/ RscEnter \/ RscResolveFails \/ RscResolve \/ RscIterate \/ RscAfterLoop

SpecPrepare == InitPrepare /\ [][NextPrepare]_vars

----------------------------------------------------------------------------
(* Application.attach_builder                                              *)
(*                                                                         *)
(* A line of the child's output is a sequence of tokens: pieces of text,   *)
(* or the hex encoding of a pickled (method, args, kwargs) triple.  The    *)
(* only keyword argument modelled is abort's `code` (None when absent).    *)

Invocation(method, args, code) == [method |-> method, args |-> args, code |-> code]

NoInvocation == Invocation("", <<>>, None)

Chr(c) == [kind |-> "text", s |-> c, inv |-> NoInvocation]

Hex(inv) == [kind |-> "hex", s |-> "<hex>", inv |-> inv]

Sentinel == <<Chr("__HATCH__")>>

Tagged(inv) == Sentinel \o <<Chr(":"), Hex(inv), Chr("\n")>>

\* The names SafeApplication binds.
CapabilityFacade ==
    {"abort", "display", "display_critical", "display_info", "display_error",
     "display_success", "display_waiting", "display_warning", "display_debug",
     "display_mini_header", "prompt", "confirm", "status", "status_if",
     "read_builder"}

\* The names getattr(self, ...) finds on an Application: the facade's, and
\* the methods and attributes the class itself defines.
ApplicationAttributes ==
    CapabilityFacade \cup
    {"get_environment", "prepare_environment", "run_shell_commands",
     "attach_builder", "ensure_environment_plugin_dependencies",
     "ensure_plugin_dependencies", "get_env_directory", "get_python_manager",
     "get_safe_application"}

LinePool ==
    { <<Chr("hello"), Chr("\n")>>,
      <<Chr("a"), Chr(":"), Chr("b"), Chr("\n")>>,
      Tagged(Invocation("display_info", <<"world">>, None)),
      Tagged(Invocation("abort", <<"boom">>, 2)),
      Tagged(Invocation("abort", <<>>, None)),
      Tagged(Invocation("run_shell_commands", <<"env", "rm -rf">>, None)),
      Tagged(Invocation("no_such_method", <<>>, None)),
      Sentinel \o <<Chr(":"), Chr("zz"), Chr("\n")>> }

Streams == BoundedSeq(LinePool, MaxLines)

ProcessScope == <<"process">>

LineText(line) == [k \in 1..Len(line) |-> line[k].s]

\* line.partition(':')
ColonAt(line) == {k \in 1..Len(line) : line[k] = Chr(":")}

First(S) == CHOOSE m \in S : \A n \in S : m <= n

IndicatorWholeLine(line) == line

Indicator(line) ==
    IF ColonAt(line) = {} THEN line ELSE SubSeq(line, 1, First(ColonAt(line)) - 1)

Procedure(line) ==
    IF ColonAt(line) = {} THEN <<>>
    ELSE SubSeq(line, First(ColonAt(line)) + 1, Len(line))

IsTagged(line) == Indicator(line) = Sentinel

RECURSIVE RStrip(_)
RStrip(p) ==
    IF p # <<>> /\ p[Len(p)] \in {Chr("\n"), Chr(" ")} THEN RStrip(Front(p)) ELSE p

\* pickle.loads(bytes.fromhex(...)) succeeds on the hex of a pickled triple
Decodable(p) == Len(RStrip(p)) = 1 /\ RStrip(p)[1].kind = "hex"

Decode(p) == RStrip(p)[1].inv

\* getattr(self, method): the lookup is on the Application itself
Resolvable(method) == method \in ApplicationAttributes

AbortArgText(inv) ==
    IF Len(inv.args) >= 1 /\ inv.args[1] # "" THEN <<inv.args[1]>> ELSE <<>>

AbortArgCode(inv) == IF inv.code = None THEN AbortDefaultCode ELSE inv.code

InvokeEv(inv) ==
    Ev("invoke", <<inv.method>> \o inv.args,
       IF inv.code = None THEN 0 ELSE inv.code)

AbEnter ==
    /\ pc = "ab_enter"
    /\ ctx' = Append(ctx, ProcessScope)
    /\ trace' = Append(trace, EnterEv(ProcessScope))
    /\ pc' = "ab_loop"
    /\ UNCHANGED <<abortVars, appVars, rscParams, rscLocals,
                   dependencies_in_sync, procVars>>

AbPlain ==
    /\ pc = "ab_loop"
    /\ pos < Len(stream)
    /\ ~IsTagged(stream[pos + 1])
    /\ trace' = Append(trace, Ev("display_info", LineText(stream[pos + 1]), 0))
    /\ pos' = pos + 1
    /\ UNCHANGED <<pc, ctx, abortVars, appVars, rscParams, rscLocals,
                   dependencies_in_sync, stream, returncode, output>>

\* An exception leaves the `with process:` block: the process is waited on.
AbRaise(before, what) ==
    /\ trace' = trace \o before \o <<Ev("raise", <<what>>, 0)>> \o Unwind(ctx)
    /\ ctx' = <<>>
    /\ pc' = "raised"
    /\ UNCHANGED abortVars

DrainsFirstAlways(method) == TRUE

\* `if method == 'abort': process.communicate()`
DrainsFirst(method) == method = "abort"

\* The process is waited on by communicate() and by leaving `with process:`.
Waited(line) ==
    \/ ~Decodable(Procedure(line))
    \/ ~Resolvable(Decode(Procedure(line)).method)
    \/ DrainsFirst(Decode(Procedure(line)).method)
    \/ Decode(Procedure(line)).method = "abort"

\* The body of a method reached by the dispatch is not followed, except for
\* abort: the invocation itself is what is recorded.
AbTagged ==
    /\ pc = "ab_loop"
    /\ pos < Len(stream)
    /\ IsTagged(stream[pos + 1])
    /\ pos' = pos + 1
    /\ \E rc \in (IF Waited(stream[pos + 1]) THEN ExitCodes ELSE {returncode}) :
          /\ returncode' = rc
          /\ LET procedure == Procedure(stream[pos + 1])
                 inv == Decode(procedure)
                 drain == IF DrainsFirst(inv.method)
                          THEN <<Ev("communicate", <<>>, rc)>> ELSE <<>>
             IN  IF ~Decodable(procedure)
                 THEN AbRaise(<<>>, "ValueError")
                 ELSE IF ~Resolvable(inv.method)
                 THEN AbRaise(drain, "AttributeError")
                 ELSE IF inv.method = "abort"
                 THEN DoAbort(drain \o <<InvokeEv(inv)>>,
                              AbortArgText(inv), AbortArgCode(inv))
                 ELSE /\ trace' = trace \o drain \o <<InvokeEv(inv)>>
                      /\ UNCHANGED <<pc, ctx, abortVars>>
    /\ UNCHANGED <<appVars, rscParams, rscLocals, dependencies_in_sync,
                   stream, output>>

ExitAbortsNever(rc) == FALSE

\* `if process.returncode:`
ExitAborts(rc) == rc # 0

AbEnd ==
    /\ pc = "ab_loop"
    /\ pos = Len(stream)
    /\ \E rc \in ExitCodes :
          /\ returncode' = rc
          /\ IF ExitAborts(rc)
             THEN AbortWithin(<<>>, <<LeaveEv(ProcessScope)>>, <<>>, rc)
             ELSE /\ trace' = Append(trace, LeaveEv(ProcessScope))
                  /\ ctx' = Front(ctx)
                  /\ pc' = "done"
                  /\ UNCHANGED abortVars
    /\ UNCHANGED <<appVars, rscParams, rscLocals, dependencies_in_sync,
                   stream, pos, output>>

InitAttach ==
    /\ pc = "ab_enter"
    /\ trace = <<>>
    /\ ctx = <<>>
    /\ exit_code = None
    /\ verbose = FALSE
    /\ env = NoEnv
    /\ commands = <<>>
    /\ source = "cmd"
    /\ force_continue = FALSE
    /\ show_code_on_error = TRUE
    /\ ret = "top"
    /\ resolved_commands = <<>>
    /\ i = 0
    /\ first_error_code = None
    /\ continue_on_error = FALSE
    /\ dependencies_in_sync = FALSE
    /\ stream \in Streams
    /\ pos = 0
    /\ returncode = None
    /\ output = <<>>
    /\ abort_text = <<>>
    /\ dependencies = <<>>
    /\ wait_message = ""
    /\ verbosity = 0

NextAttach == AbEnter \/ AbPlain \/ AbTagged \/ AbEnd

SpecAttach == InitAttach /\ [][NextAttach]_vars

----------------------------------------------------------------------------
(* Application.read_builder                                                *)

ReadLinePool ==
    { <<Chr("a")>>,
      <<Chr("c"), Chr("\n")>>,
      <<Chr("k"), Chr(":"), Chr("v")>>,
      Tagged(Invocation("x", <<"b">>, None)),
      Tagged(Invocation("abort", <<"boom", "extra">>, 2)),
      Tagged(Invocation("display_info", <<>>, None)),
      Sentinel \o <<Chr(":"), Chr("zz"), Chr("\n")>> }

ReadStreams == BoundedSeq(ReadLinePool, MaxLines)

CapturedWithMethod(line) ==
    IF IsTagged(line)
    THEN <<Decode(Procedure(line)).method>> \o Decode(Procedure(line)).args
    ELSE LineText(line)

\* lines.append(line) for a plain line, lines.append(args[0]) for a tagged one
Captured(line) ==
    IF IsTagged(line) THEN <<Decode(Procedure(line)).args[1]>> ELSE LineText(line)

\* bytes.fromhex skips whitespace, so the line's end needs no rstrip; args[0]
\* needs a positional argument.
Capturable(line) ==
    IsTagged(line) =>
        /\ Decodable(Procedure(line))
        /\ Len(Decode(Procedure(line)).args) >= 1

RbEnter ==
    /\ pc = "rb_enter"
    /\ ctx' = Append(ctx, ProcessScope)
    /\ trace' = Append(trace, EnterEv(ProcessScope))
    /\ output' = <<>>
    /\ pc' = "rb_loop"
    /\ UNCHANGED <<abortVars, appVars, rscParams, rscLocals,
                   dependencies_in_sync, stream, pos, returncode>>

RbLine ==
    /\ pc = "rb_loop"
    /\ pos < Len(stream)
    /\ pos' = pos + 1
    /\ IF Capturable(stream[pos + 1])
       THEN /\ output' = output \o Captured(stream[pos + 1])
            /\ UNCHANGED <<pc, trace, ctx, abortVars, returncode>>
       ELSE /\ \E rc \in ExitCodes : returncode' = rc
            /\ AbRaise(<<>>, IF Decodable(Procedure(stream[pos + 1]))
                             THEN "IndexError" ELSE "ValueError")
            /\ UNCHANGED output
    /\ UNCHANGED <<appVars, rscParams, rscLocals, dependencies_in_sync, stream>>

RbEnd ==
    /\ pc = "rb_loop"
    /\ pos = Len(stream)
    /\ \E rc \in ExitCodes :
          /\ returncode' = rc
          /\ IF ExitAborts(rc)
             THEN AbortWithin(<<>>, <<LeaveEv(ProcessScope)>>, output, rc)
             ELSE /\ trace' = trace \o <<LeaveEv(ProcessScope), Ev("return", output, 0)>>
                  /\ ctx' = Front(ctx)
                  /\ pc' = "done"
                  /\ UNCHANGED abortVars
    /\ UNCHANGED <<appVars, rscParams, rscLocals, dependencies_in_sync,
                   stream, pos, output>>

InitRead ==
    /\ pc = "rb_enter"
    /\ trace = <<>>
    /\ ctx = <<>>
    /\ exit_code = None
    /\ verbose = FALSE
    /\ env = NoEnv
    /\ commands = <<>>
    /\ source = "cmd"
    /\ force_continue = FALSE
    /\ show_code_on_error = TRUE
    /\ ret = "top"
    /\ resolved_commands = <<>>
    /\ i = 0
    /\ first_error_code = None
    /\ continue_on_error = FALSE
    /\ dependencies_in_sync = FALSE
    /\ stream \in ReadStreams
    /\ pos = 0
    /\ returncode = None
    /\ output = <<>>
    /\ abort_text = <<>>
    /\ dependencies = <<>>
    /\ wait_message = ""
    /\ verbosity = 0

NextRead == RbEnter \/ RbLine \/ RbEnd

SpecRead == InitRead /\ [][NextRead]_vars

----------------------------------------------------------------------------
(* Application.ensure_plugin_dependencies                                  *)

Requirements == {[name |-> "hatch-a", specifier |-> ""],
                 [name |-> "hatch-b", specifier |-> ">=1"]}

\* str(dependency)
ReqStr(d) ==
    CASE d = [name |-> "hatch-a", specifier |-> ""] -> "hatch-a"
      [] d = [name |-> "hatch-b", specifier |-> ">=1"] -> "hatch-b>=1"

DependencyLists(n) == BoundedSeq(Requirements, n)

Verbosities == {-1, 0, 1, 2}

WaitMessages == {"Syncing environment plugin requirements", "Syncing plugins"}

VerbosityAdjustment == -1

\* hatch.env.utils.add_verbosity_flag: nothing at level 0, else one -v.. or
\* -q.. flag with at most three letters.
VerbosityFlag(level) ==
    CASE level = 0 -> <<>>
      [] level = 1 -> <<"-v">>
      [] level = 2 -> <<"-vv">>
      [] level >= 3 -> <<"-vvv">>
      [] level = -1 -> <<"-q">>
      [] level = -2 -> <<"-qq">>
      [] level <= -3 -> <<"-qqq">>

InstallerBase ==
    <<"python", "-u", "-m", "pip", "install", "--disable-pip-version-check",
      "--no-python-version-warning">>

InstallerCommandFlagsLast(deps, level) ==
    InstallerBase \o [k \in 1..Len(deps) |-> ReqStr(deps[k])]
        \o VerbosityFlag(level + VerbosityAdjustment)

InstallerCommand(deps, level) ==
    InstallerBase \o VerbosityFlag(level + VerbosityAdjustment)
        \o [k \in 1..Len(deps) |-> ReqStr(deps[k])]

\* lines 178-185: the two early returns
EpCheck ==
    /\ pc = "ep_start"
    /\ IF dependencies = <<>>
       THEN /\ pc' = "done"
            /\ UNCHANGED trace
       ELSE \E in_sync \in BOOLEAN :
              /\ trace' = Append(trace,
                                 Ev("dependencies_in_sync",
                                    [k \in 1..Len(dependencies) |-> ReqStr(dependencies[k])],
                                    IF in_sync THEN 1 ELSE 0))
              /\ pc' = IF in_sync THEN "done" ELSE "ep_install"
    /\ UNCHANGED <<ctx, abortVars, appVars, rscParams, rscLocals,
                   dependencies_in_sync, procVars>>

\* lines 187-204; platform.check_command ends the program when the command
\* exits non-zero.
EpInstall ==
    /\ pc = "ep_install"
    /\ LET st == Status(<<wait_message>>)
           command == InstallerCommand(dependencies, verbosity)
       IN  \E rc \in ExitCodes :
             IF rc = 0
             THEN /\ trace' = trace \o <<EnterEv(st), Ev("check_command", command, rc),
                                         LeaveEv(st)>>
                  /\ pc' = "done"
             ELSE /\ trace' = trace \o <<EnterEv(st), Ev("check_command", command, rc),
                                         Ev("raise", <<"SystemExit">>, rc), LeaveEv(st)>>
                  /\ pc' = "raised"
    /\ UNCHANGED <<ctx, abortVars, appVars, rscParams, rscLocals,
                   dependencies_in_sync, procVars>>

InitEnsure ==
    /\ pc = "ep_start"
    /\ trace = <<>>
    /\ ctx = <<>>
    /\ exit_code = None
    /\ verbosity \in Verbosities
    /\ verbose = (verbosity > 0)
    /\ env = NoEnv
    /\ commands = <<>>
    /\ source = "cmd"
    /\ force_continue = FALSE
    /\ show_code_on_error = TRUE
    /\ ret = "top"
    /\ resolved_commands = <<>>
    /\ i = 0
    /\ first_error_code = None
    /\ continue_on_error = FALSE
    /\ dependencies_in_sync = FALSE
    /\ stream = <<>>
    /\ pos = 0
    /\ returncode = None
    /\ output = <<>>
    /\ abort_text = <<>>
    /\ dependencies \in DependencyLists(MaxDependencies)
    /\ wait_message \in WaitMessages

NextEnsure == EpCheck \/ EpInstall

SpecEnsure == InitEnsure /\ [][NextEnsure]_vars

----------------------------------------------------------------------------
(* Any one of the operations.                                              *)

Init == InitShell \/ InitPrepare \/ InitAttach \/ InitRead \/ InitEnsure

Next ==
    \/ RscEnter \/ RscResolveFails \/ RscResolve \/ RscIterate \/ RscAfterLoop
    \/ PeExists \/ PeCreate \/ PePreInstall \/ PeAfterPreInstall \/ PeInstall
    \/ PePostInstall \/ PeAfterPostInstall \/ PeCheck \/ PeSync
    \/ AbEnter \/ AbPlain \/ AbTagged \/ AbEnd
    \/ RbEnter \/ RbLine \/ RbEnd
    \/ EpCheck \/ EpInstall

Spec == Init /\ [][Next]_vars

----------------------------------------------------------------------------
(* Reading the trace.                                                      *)

EventIdx(kind) == {k \in 1..Len(trace) : trace[k].e = kind}

RunIdx == EventIdx("run_shell_command")

FailedRunIdx == {k \in RunIdx : trace[k].code # 0}

RunNo(k) == Cardinality({j \in RunIdx : j <= k})

Least(S) == First(S)

Greatest(S) == CHOOSE m \in S : \A n \in S : n <= m

RunCodes == LET evs == SelectSeq(trace, LAMBDA ev : ev.e = "run_shell_command")
            IN  [k \in 1..Len(evs) |-> evs[k].code]

After(k) == SubSeq(trace, k + 1, Len(trace))

HasMarker(c) == Len(c) >= 2 /\ SubSeq(c, 1, 2) = <<"-", " ">>

WithoutOneMarker(c) == IF HasMarker(c) THEN SubSeq(c, 3, Len(c)) ELSE c

Resolved == \E k \in EventIdx("resolve_commands") : trace[k].code = 0

----------------------------------------------------------------------------
(* Claims about run_shell_commands, checked under SpecShell.               *)

\* C2: a command that exits non-zero, is not marked "- " and runs without
\* force_continue aborts at once: nothing is displayed or executed after it
\* except the abort itself, the exit code is the command's, and the message is
\* "Failed with exit code: {code}" iff show_code_on_error (else none).
C2_AbortOnUnmarkedFailure ==
    \A k \in FailedRunIdx :
        (~force_continue /\ ~HasMarker(resolved_commands[RunNo(k)])) =>
            /\ pc = "aborted"
            /\ exit_code = trace[k].code
            /\ After(k) =
                 (IF show_code_on_error
                  THEN <<Ev("display_error",
                            <<"Failed with exit code: ">> \o Str(trace[k].code), 0)>>
                  ELSE <<>>)
                 \o <<Ev("exit", <<>>, trace[k].code), LeaveEv(CommandContext)>>

C2_Witness ==
    /\ pc = "aborted"
    /\ ~force_continue
    /\ ~show_code_on_error
    /\ Len(resolved_commands) = 2
    /\ Cardinality(RunIdx) = 1
    /\ \E k \in FailedRunIdx :
          /\ ~HasMarker(resolved_commands[1])
          /\ trace[k].code = 2
    /\ exit_code = 2

\* C3: with force_continue every resolved command is executed exactly once, in
\* list order, whatever the exit codes; afterwards the batch aborts, with no
\* message and the exit code of the first failed command, iff some command
\* exited non-zero, and returns normally otherwise.
C3_ForceContinueRunsAll ==
    (force_continue /\ Resolved /\ pc \in {"done", "aborted"}) =>
        /\ Cardinality(RunIdx) = Len(resolved_commands)
        /\ \A k \in RunIdx :
              trace[k].text = WithoutOneMarker(resolved_commands[RunNo(k)])
        /\ IF FailedRunIdx = {}
           THEN /\ pc = "done"
                /\ exit_code = None
                /\ EventIdx("exit") = {}
           ELSE /\ pc = "aborted"
                /\ exit_code = trace[Least(FailedRunIdx)].code
                /\ EventIdx("display_error") = {}
                /\ After(Greatest(RunIdx)) =
                     <<Ev("exit", <<>>, trace[Least(FailedRunIdx)].code),
                       LeaveEv(CommandContext)>>

C3_Witness ==
    /\ force_continue
    /\ pc = "aborted"
    /\ resolved_commands = <<<<"x">>, <<"-", " ", "x">>>>
    /\ RunCodes = <<2, 1>>
    /\ exit_code = 2

\* C4: a command's continue-on-error status is force_continue OR its own "- "
\* marker (recomputed for each command, so a marker does not carry over), and
\* the string executed is the resolved command with exactly one leading "- "
\* removed when present and unchanged otherwise.
C4_MarkerIsPerCommand ==
    \A k \in RunIdx :
        LET command == resolved_commands[RunNo(k)]
        IN  /\ trace[k].text = WithoutOneMarker(command)
            /\ (k = Greatest(RunIdx)) =>
                  (continue_on_error <=> (force_continue \/ HasMarker(command)))
            /\ (trace[k].code # 0 /\ HasMarker(command) /\ k < Len(trace)) =>
                  (trace[k + 1].e \in {"exit", "display_error"} => force_continue)

C4_Witness ==
    /\ ~force_continue
    /\ Cardinality(RunIdx) = 2
    /\ resolved_commands[1] = <<"-", " ", "-", " ", "x">>
    /\ ~HasMarker(resolved_commands[2])
    /\ \E k \in FailedRunIdx :
          /\ RunNo(k) = 1
          /\ trace[k].text = <<"-", " ", "x">>
    /\ ~continue_on_error
    /\ pc = "aborted"

\* C5: first_error_code is unset until the first command exits non-zero, then
\* holds that command's exit code, and no later command (failing with another
\* code, or succeeding) changes it.
C5_FirstErrorCodeIsFirstFailure ==
    first_error_code =
        IF FailedRunIdx = {} THEN None ELSE trace[Least(FailedRunIdx)].code

C5_Witness ==
    /\ RunCodes = <<1, 2>>
    /\ pc = "rsc_loop"
    /\ first_error_code = 1

\* C6: when resolve_commands fails the call aborts with the failure's message
\* and exit code 1; no command is displayed and none is executed.
C6_ResolveFailureAborts ==
    \A k \in EventIdx("resolve_commands") :
        trace[k].code = 1 =>
            /\ pc = "aborted"
            /\ exit_code = 1
            /\ RunIdx = {}
            /\ EventIdx("display") = {}
            /\ After(k) =
                 (IF trace[k].text # <<>>
                  THEN <<Ev("display_error", trace[k].text, 0)>>
                  ELSE <<>>)
                 \o <<Ev("exit", <<>>, 1), LeaveEv(CommandContext)>>

C6_Witness ==
    /\ pc = "aborted"
    /\ Len(commands) = 2
    /\ \E k \in EventIdx("resolve_commands") :
          /\ trace[k].code = 1
          /\ trace[k].text = <<"Unknown script">>
    /\ EventIdx("display_error") # {}

\* C7: when verbose or when the resolved list has more than one entry, every
\* command is displayed as "{source} [{i}] | {command}" (i counted from 1)
\* right before it is executed; otherwise nothing is displayed.
C7_DisplayBeforeExecution ==
    IF verbose \/ Len(resolved_commands) > 1
    THEN /\ Cardinality(EventIdx("display")) = Cardinality(RunIdx)
         /\ \A k \in RunIdx :
               /\ k > 1
               /\ trace[k - 1] =
                    Ev("display",
                       <<source, " [">> \o <<Digit[RunNo(k) + 1]>> \o <<"] | ">>
                           \o resolved_commands[RunNo(k)], 0)
    ELSE EventIdx("display") = {}

C7_Witness ==
    /\ ~verbose
    /\ Len(resolved_commands) = 2
    /\ Cardinality(RunIdx) = 2
    /\ \E k \in RunIdx :
          trace[k - 1] = Ev("display", <<"cmd", " [", "2", "] | ", "-", " ", "x">>, 0)

ResolveFailed == \E k \in EventIdx("resolve_commands") : trace[k].code = 1

UnmarkedFailure ==
    \E k \in FailedRunIdx : ~HasMarker(resolved_commands[RunNo(k)])

\* C18: without force_continue the call aborts iff resolution fails or some
\* unmarked command exits non-zero; when only marked commands failed it
\* returns normally and the recorded first_error_code is dropped.
C18_MarkedFailuresAreDropped ==
    (~force_continue /\ pc \in {"done", "aborted"}) =>
        /\ (pc = "aborted") <=> (ResolveFailed \/ UnmarkedFailure)
        /\ pc = "done" =>
              /\ exit_code = None
              /\ EventIdx("exit") = {}
              /\ EventIdx("display_error") = {}
              /\ Cardinality(RunIdx) = Len(resolved_commands)

C18_Witness ==
    /\ ~force_continue
    /\ pc = "done"
    /\ RunCodes = <<0, 2>>
    /\ first_error_code = 2
    /\ exit_code = None

\* C19: an abort caused by a command failure carries a non-zero code: the
\* immediate abort carries the code of the command that just failed, even when
\* first_error_code holds another code; first_error_code is the abort code only
\* of the end-of-loop abort under force_continue.
C19_AbortCodes ==
    (Resolved /\ pc = "aborted") =>
        /\ exit_code # 0
        /\ exit_code # None
        /\ IF force_continue
           THEN /\ exit_code = first_error_code
                /\ Cardinality(RunIdx) = Len(resolved_commands)
           ELSE /\ exit_code = trace[Greatest(RunIdx)].code
                /\ ~HasMarker(resolved_commands[Cardinality(RunIdx)])

C19_Witness ==
    /\ ~force_continue
    /\ pc = "aborted"
    /\ RunCodes = <<1, 2>>
    /\ first_error_code = 1
    /\ exit_code = 2

----------------------------------------------------------------------------
(* Claims about prepare_environment, checked under SpecPrepare.            *)

StepKinds == {"create", "install_project", "install_project_dev_mode",
              "run_shell_commands"}

IsStep(ev) == ev.e \in StepKinds

StepName(ev) == IF ev.e = "run_shell_commands" THEN ev.text[1] ELSE ev.e

Steps == LET evs == SelectSeq(trace, IsStep)
         IN  [k \in 1..Len(evs) |-> StepName(evs[k])]

ExpectedSteps(e) ==
    <<"create">> \o
    (IF e.skip_install THEN <<>>
     ELSE (IF e.pre_install_commands # <<>> THEN <<"pre-install">> ELSE <<>>)
          \o <<IF e.dev_mode THEN "install_project_dev_mode" ELSE "install_project">>
          \o (IF e.post_install_commands # <<>> THEN <<"post-install">> ELSE <<>>))

IsPrefix(a, b) == Len(a) <= Len(b) /\ a = SubSeq(b, 1, Len(a))

EnvCallKinds == StepKinds \cup {"exists", "dependencies_in_sync",
                                "sync_dependencies", "resolve_commands",
                                "run_shell_command"}

\* C8: for an environment that does not exist, the steps are create, then
\* (unless skip_install) the non-empty pre-install commands, exactly one of
\* the two installs by dev_mode, the non-empty post-install commands, in this
\* order and each at most once; a step that aborts is the last one invoked.
C8_ProvisioningOrder ==
    ~env.exists =>
        /\ IsPrefix(Steps, ExpectedSteps(env))
        /\ pc \in {"pe_check", "pe_sync", "done"} => Steps = ExpectedSteps(env)
        /\ \A k \in EventIdx("run_shell_commands") :
              trace[k].text =
                  IF trace[k].text[1] = "pre-install"
                  THEN <<"pre-install">> \o env.pre_install_commands
                  ELSE <<"post-install">> \o env.post_install_commands
        /\ \A k \in EventIdx("exit") :
              \A n \in (k + 1)..Len(trace) : trace[n].e \notin EnvCallKinds

C8_Witness ==
    /\ ~env.exists
    /\ ~env.skip_install
    /\ env.dev_mode
    /\ pc = "done"
    /\ Steps = <<"create", "pre-install", "install_project_dev_mode", "post-install">>
    /\ Cardinality(RunIdx) = 2

\* C9: when the environment exists at the initial check, create, the installs
\* and the pre/post-install commands are never invoked; exists() is queried
\* exactly once per call.
C9_ExistingEnvironmentNotRecreated ==
    /\ Cardinality(EventIdx("exists")) = (IF pc = "pe_start" THEN 0 ELSE 1)
    /\ env.exists => Steps = <<>> /\ RunIdx = {}

C9_Witness ==
    /\ env.exists
    /\ ~env.skip_install
    /\ env.pre_install_commands # <<>>
    /\ env.post_install_commands # <<>>
    /\ pc = "done"
    /\ EventIdx("sync_dependencies") # {}
    /\ Cardinality(EventIdx("exists")) = 1

\* C10: a call that reaches the dependency check calls dependencies_in_sync
\* exactly once, after every creation and install step, whether or not the
\* environment existed or skip_install is set; sync_dependencies is called
\* exactly once if the check returned false and never if it returned true.
C10_DependencySync ==
    LET checks == EventIdx("dependencies_in_sync")
        syncs == EventIdx("sync_dependencies")
    IN  /\ Cardinality(checks) <= 1
        /\ Cardinality(syncs) <= 1
        /\ \A k \in checks : \A n \in (k + 1)..Len(trace) : ~IsStep(trace[n])
        /\ \A n \in syncs :
              \E k \in checks : k < n /\ trace[k].text = <<>> /\ trace[k].code = 0
        /\ pc \in {"pe_sync", "done"} => Cardinality(checks) = 1
        /\ pc = "done" =>
              \A k \in checks : (Cardinality(syncs) = 1) <=> (trace[k].code = 0)

C10_Witness ==
    /\ ~env.exists
    /\ env.skip_install
    /\ pc = "done"
    /\ Steps = <<"create">>
    /\ \E k \in EventIdx("dependencies_in_sync") : trace[k].code = 0
    /\ Cardinality(EventIdx("sync_dependencies")) = 1

----------------------------------------------------------------------------
(* Claims about attach_builder, checked under SpecAttach.                  *)

\* C1: in forwarding mode no operation outside the CapabilityFacade table is
\* ever invoked on the parent application.
C1_OnlyFacadeInvoked ==
    \A k \in EventIdx("invoke") : trace[k].text[1] \in CapabilityFacade

\* What the parent does for one line: a line whose text before the first ":"
\* is the sentinel is an invocation, any other is forwarded as it is.
LineIsTagged(line) ==
    \E c \in 1..Len(line) :
        /\ line[c].s = ":"
        /\ \A b \in 1..(c - 1) : line[b].s # ":"
        /\ c = 2
        /\ line[1].s = "__HATCH__"

ExpectedEffect(line) ==
    IF LineIsTagged(line)
    THEN Ev("invoke", <<line[3].inv.method>> \o line[3].inv.args,
            IF line[3].inv.code = None THEN 0 ELSE line[3].inv.code)
    ELSE Ev("display_info", [k \in 1..Len(line) |-> line[k].s], 0)

IsEffect(ev) == ev.e \in {"display_info", "invoke"}

Effects == SelectSeq(trace, IsEffect)

AbortInvokeIdx == {k \in EventIdx("invoke") : trace[k].text[1] = "abort"}

\* C11: the parent-side effects are, in the child's order and once each, those
\* of the lines read so far: a plain line forwarded verbatim, a tagged line
\* invoked, each before the next line is read.
C11_EffectsInEmissionOrder ==
    LET n == IF pc = "raised" THEN pos - 1 ELSE pos
    IN  Effects = [k \in 1..n |-> ExpectedEffect(stream[k])]

C11_Witness ==
    /\ pc = "done"
    /\ stream = << <<Chr("hello"), Chr("\n")>>,
                   Tagged(Invocation("display_info", <<"world">>, None)) >>
    /\ Effects = << Ev("display_info", <<"hello", "\n">>, 0),
                    Ev("invoke", <<"display_info", "world">>, 0) >>

\* C12: a tagged abort is invoked only after process.communicate() has
\* drained the child, and communicate() is called for no other method.
C12_DrainOnlyBeforeAbort ==
    /\ \A k \in EventIdx("invoke") :
          (trace[k].text[1] = "abort") <=> (k > 1 /\ trace[k - 1].e = "communicate")
    /\ \A k \in EventIdx("communicate") :
          k < Len(trace) /\ trace[k + 1].e = "invoke" /\ trace[k + 1].text[1] = "abort"

C12_Witness ==
    /\ pc = "aborted"
    /\ stream = << Tagged(Invocation("display_info", <<"world">>, None)),
                   Tagged(Invocation("abort", <<"boom">>, 2)) >>
    /\ Cardinality(EventIdx("communicate")) = 1
    /\ Cardinality(EventIdx("invoke")) = 2

\* C13: when the whole stream was consumed and no tagged abort was met, the
\* parent aborts with the child's exit code and no message if that code is
\* non-zero, and returns without any abort if it is zero.
C13_ExitCodePropagates ==
    (pc \in {"done", "aborted"} /\ AbortInvokeIdx = {}) =>
        /\ pos = Len(stream)
        /\ IF returncode # 0
           THEN /\ pc = "aborted"
                /\ exit_code = returncode
                /\ EventIdx("display_error") = {}
                /\ SubSeq(trace, Len(trace) - 1, Len(trace)) =
                      <<LeaveEv(ProcessScope), Ev("exit", <<>>, returncode)>>
           ELSE /\ pc = "done"
                /\ exit_code = None
                /\ EventIdx("exit") = {}

C13_Witness ==
    /\ pc = "aborted"
    /\ AbortInvokeIdx = {}
    /\ Len(stream) = 2
    /\ returncode = 2
    /\ exit_code = 2

\* C20: once a tagged abort has been read, no later line of the child is
\* forwarded or dispatched: the abort is the last effect the stream causes.
C20_NothingAfterTaggedAbort ==
    \A k \in AbortInvokeIdx :
        /\ pc = "aborted"
        /\ trace[k - 1].e = "communicate"
        /\ \A n \in (k + 1)..Len(trace) :
              trace[n].e \in {"display_error", "exit", "leave"}
        /\ Effects[Len(Effects)] = trace[k]

C20_Witness ==
    /\ pc = "aborted"
    /\ stream = << Tagged(Invocation("abort", <<"boom">>, 2)),
                   <<Chr("hello"), Chr("\n")>> >>
    /\ pos = 1
    /\ Len(Effects) = 1
    /\ exit_code = 2

----------------------------------------------------------------------------
(* Claims about read_builder, checked under SpecRead.                      *)

ExpectedCapture(line) ==
    IF LineIsTagged(line) THEN <<line[3].inv.args[1]>>
    ELSE [k \in 1..Len(line) |-> line[k].s]

RECURSIVE ExpectedBuffer(_)
ExpectedBuffer(n) ==
    IF n = 0 THEN <<>> ELSE ExpectedBuffer(n - 1) \o ExpectedCapture(stream[n])

\* C14: in capture mode the buffer is, in emission order, each plain line
\* verbatim and the first positional argument of each tagged line; no facade
\* operation is invoked for a tagged line.  At the end the buffer is returned
\* if the exit code is zero; otherwise the parent aborts with the buffer as
\* message and that exit code.
C14_CaptureBuffer ==
    /\ EventIdx("invoke") = {}
    /\ EventIdx("display_info") = {}
    /\ pc \in {"rb_loop", "done", "aborted"} => output = ExpectedBuffer(pos)
    /\ pc = "done" =>
          /\ pos = Len(stream)
          /\ returncode = 0
          /\ exit_code = None
          /\ trace[Len(trace)] = Ev("return", ExpectedBuffer(Len(stream)), 0)
    /\ pc = "aborted" =>
          /\ pos = Len(stream)
          /\ returncode # 0
          /\ exit_code = returncode
          /\ abort_text = ExpectedBuffer(Len(stream))
          /\ After(Greatest(EventIdx("leave"))) =
               (IF ExpectedBuffer(Len(stream)) # <<>>
                THEN <<Ev("display_error", ExpectedBuffer(Len(stream)), 0)>>
                ELSE <<>>)
               \o <<Ev("exit", <<>>, returncode)>>

C14_Witness ==
    /\ pc = "done"
    /\ stream = << <<Chr("a")>>, Tagged(Invocation("x", <<"b">>, None)) >>
    /\ output = <<"a", "b">>

----------------------------------------------------------------------------
(* Claims about ensure_plugin_dependencies, checked under SpecEnsure.      *)

DependencyStrings == [k \in 1..Len(dependencies) |-> ReqStr(dependencies[k])]

InSyncResult ==
    IF EventIdx("dependencies_in_sync") = {} THEN None
    ELSE trace[Least(EventIdx("dependencies_in_sync"))].code

\* C17: with an empty dependency list nothing happens at all (the in-sync
\* predicate is not evaluated); when the predicate is true no status is shown
\* and no subprocess runs; otherwise exactly one installer command runs, under
\* one status indicator, and its arguments end with every dependency
\* specification in list order.
C17_EnsurePluginDependencies ==
    /\ dependencies = <<>> => trace = <<>>
    /\ Cardinality(EventIdx("dependencies_in_sync")) <= 1
    /\ InSyncResult # 0 =>
          /\ EventIdx("enter") = {}
          /\ EventIdx("check_command") = {}
    /\ (pc = "done" /\ dependencies # <<>>) => InSyncResult # None
    /\ (pc \in {"done", "raised"} /\ InSyncResult = 0) =>
          /\ Cardinality(EventIdx("check_command")) = 1
          /\ Cardinality(EventIdx("enter")) = 1
          /\ Cardinality(EventIdx("leave")) = 1
          /\ \A k \in EventIdx("check_command") :
                /\ trace[k - 1] = EnterEv(<<"status", wait_message>>)
                /\ trace[Len(trace)] = LeaveEv(<<"status", wait_message>>)
                /\ Len(trace[k].text) >= Len(dependencies)
                /\ SubSeq(trace[k].text,
                          Len(trace[k].text) - Len(dependencies) + 1,
                          Len(trace[k].text)) = DependencyStrings

C17_Witness ==
    /\ pc = "done"
    /\ verbosity = 2
    /\ Len(dependencies) = 2
    /\ dependencies[1].name = "hatch-b"
    /\ dependencies[2].name = "hatch-a"
    /\ \E k \in EventIdx("check_command") :
          trace[k].text = InstallerBase \o <<"-v", "hatch-b>=1", "hatch-a">>

----------------------------------------------------------------------------
(* Claims about every operation, checked under Spec.                       *)

\* The scopes still open at the end of the trace, read from its k-th event on
\* with `stack` open before it.  A `leave` that does not match the innermost
\* scope, or a status indicator begun while another one is active, gives
\* "unbalanced".
RECURSIVE OpenScopes(_, _)
OpenScopes(k, stack) ==
    IF k > Len(trace) THEN stack
    ELSE IF trace[k].e = "enter"
    THEN IF /\ trace[k].text[1] = "status"
            /\ \E n \in 1..Len(stack) : stack[n][1] = "status"
         THEN <<<<"unbalanced">>>>
         ELSE OpenScopes(k + 1, Append(stack, trace[k].text))
    ELSE IF trace[k].e = "leave"
    THEN IF stack # <<>> /\ stack[Len(stack)] = trace[k].text
         THEN OpenScopes(k + 1, SubSeq(stack, 1, Len(stack) - 1))
         ELSE <<<<"unbalanced">>>>
    ELSE OpenScopes(k + 1, stack)

Finished == pc \in {"done", "aborted", "raised"}

\* C15: every scoped resource is released on every exit path: no scope is
\* open once an operation has returned, aborted or raised; scopes are left
\* innermost first; a status indicator is ended before the next one begins;
\* and nothing but releases follows the exit function.
C15_ScopesReleased ==
    /\ OpenScopes(1, <<>>) = (IF Finished THEN <<>> ELSE ctx)
    /\ \A k \in EventIdx("exit") :
          \A n \in (k + 1)..Len(trace) : trace[n].e = "leave"

C15_Witness ==
    /\ pc = "aborted"
    /\ ret = "pre-install"
    /\ \E k \in EventIdx("exit") :
          After(k) = <<LeaveEv(CommandContext),
                       LeaveEv(Status(<<"Running pre-installation commands">>))>>

\* C16: abort displays its message as an error exactly when the message is
\* not empty, and does so before the exit function is requested; the exit
\* function is called once, with the given code (1 when none is given).
C16_AbortDisplaysThenExits ==
    /\ Cardinality(EventIdx("exit")) = (IF exit_code = None THEN 0 ELSE 1)
    /\ exit_code = None => EventIdx("display_error") = {}
    /\ \A k \in EventIdx("exit") :
          /\ trace[k].code = exit_code
          /\ IF abort_text # <<>>
             THEN /\ k > 1
                  /\ trace[k - 1] = Ev("display_error", abort_text, 0)
                  /\ Cardinality(EventIdx("display_error")) = 1
             ELSE EventIdx("display_error") = {}
    /\ \A k \in AbortInvokeIdx : trace[k].code = 0 => exit_code = 1
    /\ ResolveFailed => exit_code = 1

C16_Witness ==
    /\ pc = "aborted"
    /\ abort_text = <<"boom">>
    /\ exit_code = 2
    /\ \E k \in EventIdx("exit") :
          /\ trace[k - 1] = Ev("display_error", <<"boom">>, 0)
          /\ trace[k - 2].e = "invoke"

====
